---- MODULE Spec2Model ----
(***************************************************************************)
(* Safety monitoring and alerting engine of the tourism safety tracker     *)
(* (backend/app/safety_service.py, backend/app/routes.py,                  *)
(* backend/app/models.py).                                                 *)
(*                                                                         *)
(* Coordinates: every point of the model lies on one meridian, so a        *)
(* coordinate is its latitude, counted in steps of 0.5 km of arc.  On one  *)
(* meridian delta_lon = 0 and the haversine formula reduces to             *)
(* R * |lat2_rad - lat1_rad|, the distance along the meridian; distances   *)
(* are therefore integers in units of 0.5 km.                              *)
(* Time: minutes on the server's clock (datetime.utcnow()).                *)
(* A nullable column holds <<>> (None) or <<v>>.                           *)
(***************************************************************************)
EXTENDS Integers, Sequences, FiniteSets, TLC

VARIABLES
    now,                 \* the server clock, datetime.utcnow()
    trips,               \* table trips: id -> row
    planned_locations,   \* table planned_locations, in insertion order
    location_updates,    \* table location_updates, in insertion order
    safety_alerts,       \* table safety_alerts: id (index) -> row
    sessions,            \* respond_to_alert requests between their query and their commit
    response             \* what the last finished request returned

vars == <<now, trips, planned_locations, location_updates, safety_alerts, sessions, response>>

----------------------------------------------------------------------------
(* Bounds of the model *)

MaxUpdates == 3          \* rows of location_updates
MaxPlanned == 2          \* rows of planned_locations
MaxAlerts == 1           \* alerts raised by hand (POST /safety/manual-alert)
MaxTicks == 1            \* how often the clock jumps
MaxSessions == 2         \* respond_to_alert requests in flight together

(* Program constants, distances in units of 0.5 km, times in minutes *)

MovementEpsilon == 1     \* 0.5 km
StationaryRadius == 2    \* 1.0 km
DefaultThreshold == 4    \* 2.0 km
ResponseTimeout == 15    \* timedelta(minutes=15)
StationaryWindow == 240  \* timedelta(hours=4)

Infinity == -1           \* float('inf'): compared only through Greater and Less

None == <<>>
Some(v) == <<v>>

Users == {"u1", "u2"}
FirstUser == "u1"        \* db.query(User).first()
TripIds == {1, 2}
Thresholds == {StationaryRadius, DefaultThreshold}
UpdatePositions == {0, 1, 2}
PlannedPositions == {3, 5}
TickStep == ResponseTimeout + 1
ResponseKinds == {"safe", "help", "other"}
Messages == {None, Some(""), Some("msg")}

----------------------------------------------------------------------------
(* Floating point comparisons with float('inf') *)

Greater(a, b) == IF a = Infinity THEN b # Infinity ELSE b # Infinity /\ a > b

Less(a, b) == IF b = Infinity THEN a # Infinity ELSE a # Infinity /\ a < b

(* SafetyMonitor.calculate_distance_km on one meridian *)

calculate_distance_km(lat1, lat2) == IF lat2 >= lat1 THEN lat2 - lat1 ELSE lat1 - lat2

(* find_nearest_planned_location returning from the first round of the loop *)
find_nearest_planned_location_first(lat, planned) ==
    IF Len(planned) = 0 THEN Infinity
    ELSE calculate_distance_km(lat, planned[1].latitude)

(* SafetyMonitor.find_nearest_planned_location: the distance it returns.
   The loop keeps the least distance seen; on an empty list it returns inf. *)

RECURSIVE NearestFrom(_, _, _, _)
NearestFrom(lat, planned, i, min_distance) ==
    IF i > Len(planned) THEN min_distance
    ELSE LET distance == calculate_distance_km(lat, planned[i].latitude)
         IN  NearestFrom(lat, planned, i + 1,
                         IF Less(distance, min_distance) THEN distance ELSE min_distance)

find_nearest_planned_location(lat, planned) ==
    IF Len(planned) = 0 THEN Infinity ELSE NearestFrom(lat, planned, 1, Infinity)

----------------------------------------------------------------------------
(* Queries *)

(* db.query(PlannedLocation).filter(PlannedLocation.trip_id == trip.id).all() *)
PlannedOf(planned, trip_id) ==
    LET keep(p) == p.trip_id = trip_id IN SelectSeq(planned, keep)

(* the rows of a user and a trip *)
AllOf(updates, user_id, trip_id) ==
    {i \in 1..Len(updates) : updates[i].user_id = user_id /\ updates[i].trip_id = trip_id}

(* RecentOf without the filter on the timestamp *)
RecentOf_unfiltered(updates, user_id, trip_id, t) == AllOf(updates, user_id, trip_id)

(* the rows of the trailing window of a user and a trip, the clock reading t *)
RecentOf(updates, user_id, trip_id, t) ==
    {i \in AllOf(updates, user_id, trip_id) : updates[i].timestamp >= t - StationaryWindow}

(* ORDER BY timestamp DESC leaves the order of equal timestamps to the database:
   any row with the greatest timestamp can come first *)
LatestOf(updates, rows) ==
    {i \in rows : \A j \in rows : updates[j].timestamp <= updates[i].timestamp}

(* Trip.id == trip_id, Trip.owner_id == current_user.id *)
OwnsTrip(user_id, trip_id) == trip_id \in DOMAIN trips /\ trips[trip_id].owner_id = user_id

----------------------------------------------------------------------------
(* Rows and responses *)

LocationRow(lat, ts, user_id, trip_id) ==
    [latitude |-> lat, timestamp |-> ts, user_id |-> user_id, trip_id |-> trip_id]

PlannedRow(lat, trip_id) == [latitude |-> lat, trip_id |-> trip_id]

(* SafetyAlert(...) with the default of triggered_at on responded_at as well *)
NewAlert_stamped(alert_type, lat, distance, t1, t2, user_id, trip_id) ==
    [alert_type |-> alert_type, status |-> "active",
     latitude |-> lat, distance_from_planned_km |-> distance,
     triggered_at |-> t1, response_deadline |-> t2 + ResponseTimeout,
     responded_at |-> Some(t1), response_message |-> None,
     user_id |-> user_id, trip_id |-> trip_id]

(* SafetyAlert(...): t1 and t2 are the two reads of the clock, for triggered_at
   and for response_deadline *)
NewAlert(alert_type, lat, distance, t1, t2, user_id, trip_id) ==
    [alert_type |-> alert_type, status |-> "active",
     latitude |-> lat, distance_from_planned_km |-> distance,
     triggered_at |-> t1, response_deadline |-> t2 + ResponseTimeout,
     responded_at |-> None, response_message |-> None,
     user_id |-> user_id, trip_id |-> trip_id]

Ok(triggered) == [status_code |-> 200, alerts_triggered |-> triggered]
Failed(code) == [status_code |-> code, alerts_triggered |-> <<>>]

----------------------------------------------------------------------------
(* check_deviation_alert with >= for > *)
check_deviation_alert_ge(planned, update, trip_id, t1, t2) ==
    LET planned_of_trip == PlannedOf(planned, trip_id)
        distance_km == find_nearest_planned_location(update.latitude, planned_of_trip)
    IN  IF Len(planned_of_trip) = 0 THEN None
        ELSE IF ~ Less(distance_km, trips[trip_id].deviation_threshold_km)
             THEN Some(NewAlert("deviation", update.latitude, Some(distance_km),
                                t1, t2, update.user_id, trip_id))
             ELSE None

(* check_deviation_alert returning None while a deviation alert of the user and
   the trip is still active *)
check_deviation_alert_dedup(planned, update, trip_id, t1, t2) ==
    LET planned_of_trip == PlannedOf(planned, trip_id)
        distance_km == find_nearest_planned_location(update.latitude, planned_of_trip)
    IN  IF Len(planned_of_trip) = 0 THEN None
        ELSE IF \E a \in 1..Len(safety_alerts) :
                    /\ safety_alerts[a].alert_type = "deviation"
                    /\ safety_alerts[a].status = "active"
                    /\ safety_alerts[a].user_id = update.user_id
                    /\ safety_alerts[a].trip_id = trip_id
        THEN None
        ELSE IF Greater(distance_km, trips[trip_id].deviation_threshold_km)
             THEN Some(NewAlert("deviation", update.latitude, Some(distance_km),
                                t1, t2, update.user_id, trip_id))
             ELSE None

(* SafetyMonitor.check_deviation_alert: the alert it inserts, or None.
   t1 and t2 are its two reads of the clock. *)

check_deviation_alert(planned, update, trip_id, t1, t2) ==
    LET planned_of_trip == PlannedOf(planned, trip_id)
        distance_km == find_nearest_planned_location(update.latitude, planned_of_trip)
    IN  IF Len(planned_of_trip) = 0 THEN None
        ELSE IF Greater(distance_km, trips[trip_id].deviation_threshold_km)
             THEN Some(NewAlert("deviation", update.latitude, Some(distance_km),
                                t1, t2, update.user_id, trip_id))
             ELSE None

(* SafetyMonitor.check_stationary_alert: the alert it inserts, or None.
   recent is the window the query returned, latest its first row, t1 and t2
   the two reads of the clock while the alert is built. *)

(* the loop with the radius of the stationary alert for the movement epsilon *)
IsStationary_radius(updates, recent, latest) ==
    \A i \in recent \ {latest} :
        ~ (calculate_distance_km(updates[latest].latitude, updates[i].latitude)
             > StationaryRadius)

(* the loop over recent_locations[1:] *)
IsStationary(updates, recent, latest) ==
    \A i \in recent \ {latest} :
        ~ (calculate_distance_km(updates[latest].latitude, updates[i].latitude)
             > MovementEpsilon)

(* check_stationary_alert with >= for > in the test of the distance to the plan *)
check_stationary_alert_ge(planned, updates, recent, latest, user_id, trip_id, t1, t2) ==
    IF Cardinality(recent) < 2 THEN None
    ELSE IF IsStationary(updates, recent, latest)
         THEN LET distance_km ==
                      find_nearest_planned_location(updates[latest].latitude,
                                                    PlannedOf(planned, trip_id))
              IN  IF ~ Less(distance_km, StationaryRadius)
                  THEN Some(NewAlert("stationary", updates[latest].latitude,
                                     Some(distance_km), t1, t2, user_id, trip_id))
                  ELSE None
         ELSE None

check_stationary_alert(planned, updates, recent, latest, user_id, trip_id, t1, t2) ==
    IF Cardinality(recent) < 2 THEN None
    ELSE IF IsStationary(updates, recent, latest)
         THEN LET distance_km ==
                      find_nearest_planned_location(updates[latest].latitude,
                                                    PlannedOf(planned, trip_id))
              IN  IF Greater(distance_km, StationaryRadius)
                  THEN Some(NewAlert("stationary", updates[latest].latitude,
                                     Some(distance_km), t1, t2, user_id, trip_id))
                  ELSE None
         ELSE None

----------------------------------------------------------------------------
(* POST /location-updates.  d1 and d2 are the minutes the clock moves while the
   deviation alert and the stationary alert are built. *)

(* the reported ids counted on, the stationary alert always the second *)
AlertsCreated_counted(alerts, deviation_alert, stationary_alert) ==
    (IF deviation_alert = None THEN <<>>
     ELSE <<[type |-> "deviation", alert_id |-> Len(alerts) + 1]>>)
    \o
    (IF stationary_alert = None THEN <<>>
     ELSE <<[type |-> "stationary", alert_id |-> Len(alerts) + 2]>>)

AlertsCreated(alerts, deviation_alert, stationary_alert) ==
    (IF deviation_alert = None THEN <<>>
     ELSE <<[type |-> "deviation", alert_id |-> Len(alerts) + 1]>>)
    \o
    (IF stationary_alert = None THEN <<>>
     ELSE <<[type |-> "stationary",
             alert_id |-> Len(alerts) + Len(deviation_alert) + 1]>>)

(* the handler without the test of trip.monitoring_enabled *)
create_location_update_unconditional(user_id, trip_id, lat, ts, d1, d2) ==
    IF ~ OwnsTrip(user_id, trip_id)
    THEN /\ response' = Failed(404)
         /\ UNCHANGED <<now, trips, planned_locations, location_updates,
                        safety_alerts, sessions>>
    ELSE /\ Len(location_updates) < MaxUpdates
         /\ \E db_location \in {LocationRow(lat, ts, user_id, trip_id)} :
            \E updates \in {Append(location_updates, db_location)} :
            \E deviation_alert \in
                   {check_deviation_alert(planned_locations, db_location,
                                          trip_id, now, now + d1)} :
            \E t0 \in {IF deviation_alert = None THEN now ELSE now + d1} :
            \E recent \in {RecentOf(updates, user_id, trip_id, t0)} :
            \E latest \in IF recent = {} THEN {0} ELSE LatestOf(updates, recent) :
            \E stationary_alert \in
                   {check_stationary_alert(planned_locations, updates, recent,
                                           latest, user_id, trip_id, t0, t0 + d2)} :
                /\ location_updates' = updates
                /\ safety_alerts' = safety_alerts \o deviation_alert \o stationary_alert
                /\ now' = IF stationary_alert = None THEN t0 ELSE t0 + d2
                /\ response' = Ok(AlertsCreated(safety_alerts, deviation_alert,
                                                stationary_alert))
                /\ UNCHANGED <<trips, planned_locations, sessions>>

(* the handler with the stationary check in the else branch of the deviation alert *)
create_location_update_elif(user_id, trip_id, lat, ts, d1, d2) ==
    IF ~ OwnsTrip(user_id, trip_id)
    THEN /\ response' = Failed(404)
         /\ UNCHANGED <<now, trips, planned_locations, location_updates,
                        safety_alerts, sessions>>
    ELSE /\ Len(location_updates) < MaxUpdates
         /\ \E db_location \in {LocationRow(lat, ts, user_id, trip_id)} :
            \E updates \in {Append(location_updates, db_location)} :
            \E deviation_alert \in
                   {IF trips[trip_id].monitoring_enabled
                    THEN check_deviation_alert(planned_locations, db_location,
                                               trip_id, now, now + d1)
                    ELSE None} :
            \E t0 \in {IF deviation_alert = None THEN now ELSE now + d1} :
            \E recent \in {RecentOf(updates, user_id, trip_id, t0)} :
            \E latest \in IF recent = {} THEN {0} ELSE LatestOf(updates, recent) :
            \E stationary_alert \in
                   {IF trips[trip_id].monitoring_enabled /\ deviation_alert = None
                    THEN check_stationary_alert(planned_locations, updates, recent,
                                                latest, user_id, trip_id, t0, t0 + d2)
                    ELSE None} :
                /\ location_updates' = updates
                /\ safety_alerts' = safety_alerts \o deviation_alert \o stationary_alert
                /\ now' = IF stationary_alert = None THEN t0 ELSE t0 + d2
                /\ response' = Ok(AlertsCreated(safety_alerts, deviation_alert,
                                                stationary_alert))
                /\ UNCHANGED <<trips, planned_locations, sessions>>

(* the handler dropping the samples of the user and trip that have left the window *)
create_location_update_upsert(user_id, trip_id, lat, ts, d1, d2) ==
    IF ~ OwnsTrip(user_id, trip_id)
    THEN /\ response' = Failed(404)
         /\ UNCHANGED <<now, trips, planned_locations, location_updates,
                        safety_alerts, sessions>>
    ELSE /\ Len(location_updates) < MaxUpdates
         /\ \E db_location \in {LocationRow(lat, ts, user_id, trip_id)} :
            \E updates \in
                   {Append(SelectSeq(location_updates,
                                     LAMBDA r : r.user_id # user_id \/ r.trip_id # trip_id
                                                   \/ r.timestamp >= now - StationaryWindow),
                           db_location)} :
            \E deviation_alert \in
                   {IF trips[trip_id].monitoring_enabled
                    THEN check_deviation_alert(planned_locations, db_location,
                                               trip_id, now, now + d1)
                    ELSE None} :
            \E t0 \in {IF deviation_alert = None THEN now ELSE now + d1} :
            \E recent \in {RecentOf(updates, user_id, trip_id, t0)} :
            \E latest \in IF recent = {} THEN {0} ELSE LatestOf(updates, recent) :
            \E stationary_alert \in
                   {IF trips[trip_id].monitoring_enabled
                    THEN check_stationary_alert(planned_locations, updates, recent,
                                                latest, user_id, trip_id, t0, t0 + d2)
                    ELSE None} :
                /\ location_updates' = updates
                /\ safety_alerts' = safety_alerts \o deviation_alert \o stationary_alert
                /\ now' = IF stationary_alert = None THEN t0 ELSE t0 + d2
                /\ response' = Ok(AlertsCreated(safety_alerts, deviation_alert,
                                                stationary_alert))
                /\ UNCHANGED <<trips, planned_locations, sessions>>

create_location_update(user_id, trip_id, lat, ts, d1, d2) ==
    IF ~ OwnsTrip(user_id, trip_id)
    THEN /\ response' = Failed(404)
         /\ UNCHANGED <<now, trips, planned_locations, location_updates,
                        safety_alerts, sessions>>
    ELSE /\ Len(location_updates) < MaxUpdates
         /\ \E db_location \in {LocationRow(lat, ts, user_id, trip_id)} :
            \E updates \in {Append(location_updates, db_location)} :
            \E deviation_alert \in
                   {IF trips[trip_id].monitoring_enabled
                    THEN check_deviation_alert(planned_locations, db_location,
                                               trip_id, now, now + d1)
                    ELSE None} :
            \E t0 \in {IF deviation_alert = None THEN now ELSE now + d1} :
            \E recent \in {RecentOf(updates, user_id, trip_id, t0)} :
            \E latest \in IF recent = {} THEN {0} ELSE LatestOf(updates, recent) :
            \E stationary_alert \in
                   {IF trips[trip_id].monitoring_enabled
                    THEN check_stationary_alert(planned_locations, updates, recent,
                                                latest, user_id, trip_id, t0, t0 + d2)
                    ELSE None} :
                /\ location_updates' = updates
                /\ safety_alerts' = safety_alerts \o deviation_alert \o stationary_alert
                /\ now' = IF stationary_alert = None THEN t0 ELSE t0 + d2
                /\ response' = Ok(AlertsCreated(safety_alerts, deviation_alert,
                                                stationary_alert))
                /\ UNCHANGED <<trips, planned_locations, sessions>>

(* POST /location-updates with a db.commit() that raises: that of the sample, of
   the deviation alert or of the stationary alert.  Nothing catches the
   exception: what was committed before stays, and the request ends in a 500. *)

create_location_update_failing(user_id, trip_id, lat, ts, failing) ==
    /\ OwnsTrip(user_id, trip_id)
    /\ Len(location_updates) < MaxUpdates
    /\ \E db_location \in {LocationRow(lat, ts, user_id, trip_id)} :
       \E updates \in {Append(location_updates, db_location)} :
       \E deviation_alert \in
              {IF trips[trip_id].monitoring_enabled
               THEN check_deviation_alert(planned_locations, db_location,
                                          trip_id, now, now)
               ELSE None} :
       \E recent \in {RecentOf(updates, user_id, trip_id, now)} :
       \E latest \in IF recent = {} THEN {0} ELSE LatestOf(updates, recent) :
       \E stationary_alert \in
              {IF trips[trip_id].monitoring_enabled
               THEN check_stationary_alert(planned_locations, updates, recent,
                                           latest, user_id, trip_id, now, now)
               ELSE None} :
           \/ /\ failing = "location"
              /\ UNCHANGED <<location_updates, safety_alerts>>
           \/ /\ failing = "deviation"
              /\ deviation_alert # None
              /\ location_updates' = updates
              /\ UNCHANGED safety_alerts
           \/ /\ failing = "stationary"
              /\ stationary_alert # None
              /\ location_updates' = updates
              /\ safety_alerts' = safety_alerts \o deviation_alert
    /\ response' = Failed(500)
    /\ UNCHANGED <<now, trips, planned_locations, sessions>>

(* POST /simple/locations: no authentication and no safety check; the row belongs
   to the first user and carries the server's time (datetime.now(), on a server
   that keeps UTC) *)

create_simple_location(trip_id, lat) ==
    /\ Len(location_updates) < MaxUpdates
    /\ location_updates' = Append(location_updates,
                                  LocationRow(lat, now, FirstUser, trip_id))
    /\ response' = Ok(<<>>)
    /\ UNCHANGED <<now, trips, planned_locations, safety_alerts, sessions>>

(* POST /trips/{trip_id}/planned-locations *)

add_planned_location(user_id, trip_id, lat) ==
    IF ~ OwnsTrip(user_id, trip_id)
    THEN /\ response' = Failed(404)
         /\ UNCHANGED <<now, trips, planned_locations, location_updates,
                        safety_alerts, sessions>>
    ELSE /\ Len(planned_locations) < MaxPlanned
         /\ planned_locations' = Append(planned_locations, PlannedRow(lat, trip_id))
         /\ response' = Ok(<<>>)
         /\ UNCHANGED <<now, trips, location_updates, safety_alerts, sessions>>

(* POST /safety/manual-alert *)

create_manual_alert(user_id, trip_id, d) ==
    IF ~ OwnsTrip(user_id, trip_id)
    THEN /\ response' = Failed(404)
         /\ UNCHANGED <<now, trips, planned_locations, location_updates,
                        safety_alerts, sessions>>
    ELSE IF AllOf(location_updates, user_id, trip_id) = {}
    THEN /\ response' = Failed(400)
         /\ UNCHANGED <<now, trips, planned_locations, location_updates,
                        safety_alerts, sessions>>
    ELSE /\ Len(safety_alerts) < MaxAlerts
         /\ \E latest \in LatestOf(location_updates,
                                   AllOf(location_updates, user_id, trip_id)) :
              safety_alerts' =
                  Append(safety_alerts,
                         NewAlert("manual", location_updates[latest].latitude, None,
                                  now, now + d, user_id, trip_id))
         /\ now' = now + d
         /\ response' = Ok(<<>>)
         /\ UNCHANGED <<trips, planned_locations, location_updates, sessions>>

----------------------------------------------------------------------------
(* POST /alerts/{alert_id}/respond *)

(* the query by SafetyAlert.id alone *)
FindAlert_by_id(alerts, alert_id, user_id) == alert_id \in 1..Len(alerts)

(* SafetyAlert.id == alert_id, SafetyAlert.user_id == current_user.id *)
FindAlert(alerts, alert_id, user_id) ==
    alert_id \in 1..Len(alerts) /\ alerts[alert_id].user_id = user_id

(* response.message or "...": None and the empty string both give the default *)
MessageOr(message, default) ==
    IF message = None \/ message = Some("") THEN Some(default) ELSE message

(* the assignments with the message of "safe" in the branch of "help" *)
ApplyResponse_pasted(alert, kind, message, t) ==
    LET answered ==
            IF kind = "safe"
            THEN [alert EXCEPT !.status = "responded_safe",
                               !.response_message =
                                   MessageOr(message, "User confirmed they are safe")]
            ELSE IF kind = "help"
            THEN [alert EXCEPT !.status = "responded_help",
                               !.response_message =
                                   MessageOr(message, "User confirmed they are safe")]
            ELSE alert
    IN  [answered EXCEPT !.responded_at = Some(t)]

(* the assignments to the loaded row, the clock reading t *)
ApplyResponse(alert, kind, message, t) ==
    LET answered ==
            IF kind = "safe"
            THEN [alert EXCEPT !.status = "responded_safe",
                               !.response_message =
                                   MessageOr(message, "User confirmed they are safe")]
            ELSE IF kind = "help"
            THEN [alert EXCEPT !.status = "responded_help",
                               !.response_message =
                                   MessageOr(message, "User requested help")]
            ELSE alert
    IN  [answered EXCEPT !.responded_at = Some(t)]

(* db.commit(): the UPDATE sets the columns whose value differs from the loaded one *)
Flush(stored, loaded, modified) ==
    [f \in DOMAIN stored |-> IF modified[f] # loaded[f] THEN modified[f] ELSE stored[f]]

(* the whole request, no other request between its query and its commit *)
respond_to_alert(user_id, alert_id, kind, message) ==
    IF ~ FindAlert(safety_alerts, alert_id, user_id)
    THEN /\ response' = Failed(404)
         /\ UNCHANGED <<now, trips, planned_locations, location_updates,
                        safety_alerts, sessions>>
    ELSE /\ safety_alerts' =
                [safety_alerts EXCEPT ![alert_id] =
                    Flush(@, @, ApplyResponse(@, kind, message, now))]
         /\ response' = Ok(<<>>)
         /\ UNCHANGED <<now, trips, planned_locations, location_updates, sessions>>

(* the same request in two steps, the query and then the assignments with the
   commit; requests of other threads may run in between *)

Idle == [state |-> "idle"]

respond_query(s, user_id, alert_id, kind, message) ==
    /\ sessions[s] = Idle
    /\ IF ~ FindAlert(safety_alerts, alert_id, user_id)
       THEN /\ response' = Failed(404)
            /\ UNCHANGED sessions
       ELSE /\ sessions' = [sessions EXCEPT ![s] =
                               [state |-> "loaded", alert_id |-> alert_id,
                                kind |-> kind, message |-> message,
                                alert |-> safety_alerts[alert_id]]]
            /\ UNCHANGED response
    /\ UNCHANGED <<now, trips, planned_locations, location_updates, safety_alerts>>

respond_commit(s) ==
    /\ sessions[s] # Idle
    /\ LET r == sessions[s]
       IN  safety_alerts' =
               [safety_alerts EXCEPT ![r.alert_id] =
                   Flush(@, r.alert, ApplyResponse(r.alert, r.kind, r.message, now))]
    /\ sessions' = [sessions EXCEPT ![s] = Idle]
    /\ response' = Ok(<<>>)
    /\ UNCHANGED <<now, trips, planned_locations, location_updates>>

----------------------------------------------------------------------------
(* The clock *)

Tick ==
    /\ now + TickStep <= MaxTicks * TickStep
    /\ now' = now + TickStep
    /\ UNCHANGED <<trips, planned_locations, location_updates, safety_alerts,
                   sessions, response>>

----------------------------------------------------------------------------
(* The program.  The trips exist before monitoring starts (POST /trips) and the
   engine only reads them: u1 owns trip 1, monitored, with a threshold of 1.0 km
   or the default; u2 owns trip 2, with monitoring switched off. *)

TripRow(owner_id, monitoring_enabled, deviation_threshold_km) ==
    [owner_id |-> owner_id, monitoring_enabled |-> monitoring_enabled,
     deviation_threshold_km |-> deviation_threshold_km]

InitialTrips ==
    {[t \in TripIds |-> IF t = 1 THEN TripRow("u1", TRUE, th)
                        ELSE TripRow("u2", FALSE, DefaultThreshold)] :
        th \in Thresholds}

Init ==
    /\ now = 0
    /\ trips \in InitialTrips
    /\ planned_locations = <<>>
    /\ location_updates = <<>>
    /\ safety_alerts = <<>>
    /\ sessions = [s \in 1..MaxSessions |-> Idle]
    /\ response = Ok(<<>>)

(* the timestamp is the client's: a current one, one a minute older, or one
   that has left the window *)
Timestamps(t) == {t, t - 1, t - StationaryWindow - 1}

Drift == {0, 1}

LocationUpdate ==
    \E user_id \in Users, trip_id \in TripIds, lat \in UpdatePositions :
        \E ts \in Timestamps(now), d1 \in Drift, d2 \in Drift :
            create_location_update(user_id, trip_id, lat, ts, d1, d2)

SimpleLocation ==
    \E trip_id \in TripIds, lat \in UpdatePositions : create_simple_location(trip_id, lat)

AddPlanned ==
    \E user_id \in Users, trip_id \in TripIds, lat \in PlannedPositions :
        add_planned_location(user_id, trip_id, lat)

ManualAlert ==
    \E user_id \in Users, trip_id \in TripIds, d \in Drift :
        create_manual_alert(user_id, trip_id, d)

LocationUpdateFailing ==
    \E user_id \in Users, trip_id \in TripIds, lat \in UpdatePositions :
        \E ts \in Timestamps(now), failing \in {"location", "deviation", "stationary"} :
            create_location_update_failing(user_id, trip_id, lat, ts, failing)

Respond ==
    \E user_id \in Users, alert_id \in 1..(Len(safety_alerts) + 1) :
        \E kind \in ResponseKinds, message \in Messages :
            respond_to_alert(user_id, alert_id, kind, message)

RespondQuery ==
    \E s \in 1..MaxSessions, user_id \in Users, alert_id \in 1..(Len(safety_alerts) + 1) :
        \E kind \in ResponseKinds, message \in Messages :
            respond_query(s, user_id, alert_id, kind, message)

RespondCommit == \E s \in 1..MaxSessions : respond_commit(s)

Next ==
    \/ LocationUpdate
    \/ LocationUpdateFailing
    \/ SimpleLocation
    \/ AddPlanned
    \/ ManualAlert
    \/ RespondQuery
    \/ RespondCommit
    \/ Tick

(* The program as a whole.  The specifications below are parts of it: each
   starts from a state the program reaches and takes the requests one group of
   properties is about. *)
Spec == Init /\ [][Next]_vars

----------------------------------------------------------------------------
(* The monitoring pipeline alone *)

(* the planned locations exist before the trip starts
   (POST /trips/{trip_id}/planned-locations): none, one or two for trip 1, and
   lists holding a row of trip 2 *)
PlannedLists ==
    {<<>>, <<PlannedRow(3, 1)>>, <<PlannedRow(5, 1)>>,
     <<PlannedRow(3, 1), PlannedRow(5, 1)>>, <<PlannedRow(5, 1), PlannedRow(3, 1)>>,
     <<PlannedRow(5, 2)>>, <<PlannedRow(3, 2), PlannedRow(5, 1)>>}

InitMonitor ==
    /\ now = 0
    /\ trips \in InitialTrips
    /\ planned_locations \in PlannedLists
    /\ location_updates = <<>>
    /\ safety_alerts = <<>>
    /\ sessions = [s \in 1..MaxSessions |-> Idle]
    /\ response = Ok(<<>>)

(* u1 reports from three places with each kind of timestamp; u2 reports for the
   unmonitored trip *)
MonitorInputs ==
    {<<"u1", 1, lat, ts>> : lat \in UpdatePositions, ts \in Timestamps(now)}
    \cup {<<"u2", 2, 0, now>>}

MonitorUpdate ==
    \E in \in MonitorInputs : create_location_update(in[1], in[2], in[3], in[4], 0, 0)

MonitorSimple == create_simple_location(1, 0)

NextMonitor == MonitorUpdate \/ MonitorSimple

SpecMonitor == InitMonitor /\ [][NextMonitor]_vars

----------------------------------------------------------------------------
(* The alert lifecycle alone: each user has sent one location for their trip,
   alerts are raised by hand and answered *)

InitLifecycle ==
    /\ now = 0
    /\ trips \in InitialTrips
    /\ planned_locations = <<>>
    /\ location_updates = <<LocationRow(0, 0, "u1", 1), LocationRow(1, 0, "u2", 2)>>
    /\ safety_alerts = <<>>
    /\ sessions = [s \in 1..MaxSessions |-> Idle]
    /\ response = Ok(<<>>)

NextLifecycle == ManualAlert \/ Respond \/ Tick

SpecLifecycle == InitLifecycle /\ [][NextLifecycle]_vars

(* the clock runs on whatever the requests do *)
SpecLifecycleFair == SpecLifecycle /\ WF_vars(Tick)

(* The alert lifecycle with the threads of the server: respond_to_alert requests
   overlap *)

InitConcurrent ==
    /\ now = 0
    /\ trips \in InitialTrips
    /\ planned_locations = <<>>
    /\ location_updates = <<LocationRow(0, 0, "u1", 1), LocationRow(1, 0, "u2", 2)>>
    /\ safety_alerts = <<>>
    /\ sessions = [s \in 1..MaxSessions |-> Idle]
    /\ response = Ok(<<>>)

ConcurrentManual == \E user_id \in Users, trip_id \in TripIds :
                        create_manual_alert(user_id, trip_id, 0)

ConcurrentQuery ==
    \E s \in 1..MaxSessions, user_id \in Users, alert_id \in 1..(Len(safety_alerts) + 1) :
        \E kind \in {"safe", "help"} :
            respond_query(s, user_id, alert_id, kind, None)

NextConcurrent == ConcurrentManual \/ ConcurrentQuery \/ RespondCommit

SpecConcurrent == InitConcurrent /\ [][NextConcurrent]_vars

----------------------------------------------------------------------------
(* The service of one traveller: u1 plans trip 1 while it is under way, reports
   from one place in time and from another with an old timestamp, the database fails at
   times, u1 raises an alert by hand and answers alerts *)

InitService ==
    /\ now = 0
    /\ trips \in InitialTrips
    /\ planned_locations = <<>>
    /\ location_updates = <<>>
    /\ safety_alerts = <<>>
    /\ sessions = [s \in 1..MaxSessions |-> Idle]
    /\ response = Ok(<<>>)

ServiceInputs == {<<0, now>>, <<2, now - StationaryWindow - 1>>}

ServiceUpdate ==
    \E in \in ServiceInputs : create_location_update("u1", 1, in[1], in[2], 0, 0)

ServiceUpdateFailing ==
    \E failing \in {"location", "deviation", "stationary"} :
        create_location_update_failing("u1", 1, 0, now, failing)

ServicePlanned ==
    \E lat \in PlannedPositions : add_planned_location("u1", 1, lat)

ServiceManual == create_manual_alert("u1", 1, 0)

ServiceRespond ==
    \E alert_id \in 1..MaxAlerts : respond_to_alert("u1", alert_id, "safe", None)

NextService ==
    \/ ServiceUpdate
    \/ ServiceUpdateFailing
    \/ ServicePlanned
    \/ ServiceManual
    \/ ServiceRespond

SpecService == InitService /\ [][NextService]_vars

----------------------------------------------------------------------------
(* Two travellers side by side: trip 1 has a planned location; both users send
   locations, raise alerts by hand and answer alerts, each also for the trip and
   the alerts of the other, and someone posts to /simple/locations *)

InitIsolation ==
    /\ now = 0
    /\ trips \in InitialTrips
    /\ planned_locations = <<PlannedRow(5, 1)>>
    /\ location_updates = <<>>
    /\ safety_alerts = <<>>
    /\ sessions = [s \in 1..MaxSessions |-> Idle]
    /\ response = Ok(<<>>)

IsolationUpdate ==
    \E user_id \in Users, trip_id \in TripIds :
        create_location_update(user_id, trip_id, 0, now, 0, 0)

IsolationSimple == create_simple_location(2, 0)

IsolationManual ==
    \E user_id \in Users, trip_id \in TripIds : create_manual_alert(user_id, trip_id, 0)

IsolationRespond ==
    \E user_id \in Users, alert_id \in 1..(Len(safety_alerts) + 1) :
        respond_to_alert(user_id, alert_id, "safe", None)

NextIsolation ==
    \/ IsolationUpdate
    \/ IsolationSimple
    \/ IsolationManual
    \/ IsolationRespond

SpecIsolation == InitIsolation /\ [][NextIsolation]_vars

----------------------------------------------------------------------------
(* Properties of the alert lifecycle *)

Terminal == {"responded_safe", "responded_help", "escalated"}

\* C1: respond_to_alert on an alert of the caller whose status is not "active"
\* fails and records no response.
C1_RespondOnlyWhileActive ==
    [][\A user_id \in Users, alert_id \in 1..MaxAlerts :
         \A kind \in ResponseKinds, message \in Messages :
            (/\ FindAlert(safety_alerts, alert_id, user_id)
             /\ safety_alerts[alert_id].status # "active"
             /\ respond_to_alert(user_id, alert_id, kind, message))
            => (response'.status_code # 200 /\ safety_alerts' = safety_alerts)]_vars

\* C2: once an alert's status is terminal, no step changes its status, its
\* response_message or its responded_at.
C2_TerminalAbsorbing ==
    [][\A a \in 1..Len(safety_alerts) :
         safety_alerts[a].status \in Terminal
         => (/\ safety_alerts'[a].status = safety_alerts[a].status
             /\ safety_alerts'[a].response_message = safety_alerts[a].response_message
             /\ safety_alerts'[a].responded_at = safety_alerts[a].responded_at)]_vars

\* C3: an alert that is still "active" once the clock has passed its
\* response_deadline does not stay so: it is eventually "escalated" (or, if the
\* user answers first, responded).
C3_UnansweredEscalates ==
    \A a \in 1..MaxAlerts :
        (/\ a <= Len(safety_alerts)
         /\ safety_alerts[a].status = "active"
         /\ now > safety_alerts[a].response_deadline)
        ~> (a <= Len(safety_alerts) /\ safety_alerts[a].status \in Terminal)

\* C5: a respond_to_alert request that commits after another request has taken
\* the alert out of "active" writes nothing.
C5_LateWriterIsNoOp ==
    [][\A s \in 1..MaxSessions :
         (/\ sessions[s] # Idle
          /\ respond_commit(s)
          /\ safety_alerts[sessions[s].alert_id].status # "active")
         => safety_alerts' = safety_alerts]_vars

----------------------------------------------------------------------------
(* Properties of the monitoring pipeline *)

(* a POST /location-updates of the owner of a monitored trip: the step stores
   the sample of the request and is a step of the handler *)
MonitoredUpdate(in) ==
    /\ OwnsTrip(in[1], in[2])
    /\ trips[in[2]].monitoring_enabled
    /\ location_updates' = Append(location_updates,
                                  LocationRow(in[3], in[4], in[1], in[2]))
    /\ create_location_update(in[1], in[2], in[3], in[4], 0, 0)

(* the alerts of a kind the step has inserted *)
CreatedAlerts(alert_type) ==
    {a \in (Len(safety_alerts) + 1)..Len(safety_alerts') :
        safety_alerts'[a].alert_type = alert_type}

(* the planned locations of a trip *)
WaypointsOf(trip_id) ==
    {p \in 1..Len(planned_locations) : planned_locations[p].trip_id = trip_id}

(* the samples of a user and a trip in the trailing window, once the step has
   stored its sample, and the most recent of them *)
SamplesInWindow(user_id, trip_id) ==
    {i \in 1..Len(location_updates') :
        /\ location_updates'[i].user_id = user_id
        /\ location_updates'[i].trip_id = trip_id
        /\ location_updates'[i].timestamp >= now - StationaryWindow}

MostRecent(window) ==
    {l \in window :
        \A j \in window : location_updates'[j].timestamp <= location_updates'[l].timestamp}

Apart(i, j) ==
    calculate_distance_km(location_updates'[i].latitude, location_updates'[j].latitude)

FarFromPlan(l, trip_id) ==
    \A p \in WaypointsOf(trip_id) :
        calculate_distance_km(location_updates'[l].latitude,
                              planned_locations[p].latitude) > StationaryRadius

\* C6: the deviation check creates a deviation alert exactly when the trip has a
\* planned location and the sample is farther than deviation_threshold_km from
\* every planned location of the trip (strictly: at the threshold, none).
C6_DeviationIffBeyondThreshold ==
    [][\A in \in MonitorInputs :
         MonitoredUpdate(in)
         => (CreatedAlerts("deviation") # {}
             <=> /\ WaypointsOf(in[2]) # {}
                 /\ \A p \in WaypointsOf(in[2]) :
                        calculate_distance_km(in[3], planned_locations[p].latitude)
                            > trips[in[2]].deviation_threshold_km)]_vars

(* a sample exactly at the threshold has raised nothing, then a sample beyond the
   threshold has raised a deviation alert *)
C6_Witness ==
    /\ Len(location_updates) = 2
    /\ PlannedOf(planned_locations, 1) # <<>>
    /\ \A i \in 1..2 : location_updates[i].user_id = "u1" /\ location_updates[i].trip_id = 1
    /\ find_nearest_planned_location(location_updates[1].latitude,
                                     PlannedOf(planned_locations, 1))
           = trips[1].deviation_threshold_km
    /\ location_updates[1].latitude # 0
    /\ Len(safety_alerts) >= 1
    /\ \A a \in 1..Len(safety_alerts) :
           /\ safety_alerts[a].latitude = location_updates[2].latitude
           /\ safety_alerts[a].latitude # location_updates[1].latitude
    /\ safety_alerts[1].alert_type = "deviation"
    /\ response.alerts_triggered # <<>>
    /\ response.alerts_triggered[1].type = "deviation"

\* C7: the stationarity check creates no alert when the trip has no planned
\* location.
C7_NoStationaryWithoutPlanned ==
    [][\A in \in MonitorInputs :
         (MonitoredUpdate(in) /\ WaypointsOf(in[2]) = {})
         => CreatedAlerts("stationary") = {}]_vars

\* C8 as claimed: if any two samples of the window are more than 0.5 km apart,
\* the stationarity check creates no stationary alert.  (Stated for a trip with
\* planned locations and a window whose latest sample is the only one of its
\* timestamp.)
C8_AnyPairApart ==
    [][\A in \in MonitorInputs :
         (/\ MonitoredUpdate(in)
          /\ WaypointsOf(in[2]) # {}
          /\ Cardinality(MostRecent(SamplesInWindow(in[1], in[2]))) = 1
          /\ \E i, j \in SamplesInWindow(in[1], in[2]) : Apart(i, j) > MovementEpsilon)
         => CreatedAlerts("stationary") = {}]_vars

\* C8 amended: if a sample of the window is more than 0.5 km from the latest
\* sample, the stationarity check creates no stationary alert.
C8_ApartFromLatest ==
    [][\A in \in MonitorInputs :
         (/\ MonitoredUpdate(in)
          /\ SamplesInWindow(in[1], in[2]) # {}
          /\ \A l \in MostRecent(SamplesInWindow(in[1], in[2])) :
                 \E i \in SamplesInWindow(in[1], in[2]) : Apart(i, l) > MovementEpsilon)
         => CreatedAlerts("stationary") = {}]_vars

(* the latest sample is 1.0 km from the one before it and far from the plan, and
   no stationary alert exists *)
C8_Witness ==
    /\ Len(location_updates) = 2
    /\ \A i \in 1..2 : location_updates[i].user_id = "u1" /\ location_updates[i].trip_id = 1
    /\ location_updates[1].timestamp = now - 1
    /\ location_updates[2].timestamp = now
    /\ calculate_distance_km(location_updates[1].latitude, location_updates[2].latitude)
           > MovementEpsilon
    /\ PlannedOf(planned_locations, 1) # <<>>
    /\ Greater(find_nearest_planned_location(location_updates[2].latitude,
                                             PlannedOf(planned_locations, 1)),
               StationaryRadius)
    /\ \A a \in 1..Len(safety_alerts) : safety_alerts[a].alert_type # "stationary"

\* C9: with a planned location and a window of two or more samples, all within
\* 0.5 km of the latest, the stationarity check creates a stationary alert exactly
\* when the latest sample is more than 1.0 km from every planned location; the
\* alert is of type "stationary", "active" and at the latest sample's coordinates.
\* (Of samples with the same timestamp any can be the latest.)
C9_StationaryIffFarFromPlan ==
    [][\A in \in MonitorInputs :
         (/\ MonitoredUpdate(in)
          /\ WaypointsOf(in[2]) # {}
          /\ Cardinality(SamplesInWindow(in[1], in[2])) >= 2)
         => LET window == SamplesInWindow(in[1], in[2])
                Still(l) == \A i \in window : Apart(i, l) <= MovementEpsilon
            IN  /\ (\A l \in MostRecent(window) : Still(l) /\ FarFromPlan(l, in[2]))
                       => CreatedAlerts("stationary") # {}
                /\ \A a \in CreatedAlerts("stationary") :
                       /\ safety_alerts'[a].status = "active"
                       /\ \E l \in MostRecent(window) :
                              /\ Still(l)
                              /\ FarFromPlan(l, in[2])
                              /\ safety_alerts'[a].latitude = location_updates'[l].latitude
                       /\ \E k \in 1..Len(response'.alerts_triggered) :
                              response'.alerts_triggered[k]
                                  = [type |-> "stationary", alert_id |-> a]
                /\ Cardinality(CreatedAlerts("stationary")) <= 1]_vars

(* two samples exactly 1.0 km from the plan have raised nothing; a third one, 0.5
   km further out, has raised a stationary alert at its coordinates *)
C9_Witness ==
    /\ Len(location_updates) = 3
    /\ PlannedOf(planned_locations, 1) # <<>>
    /\ \A i \in 1..3 : location_updates[i].user_id = "u1" /\ location_updates[i].trip_id = 1
    /\ \A i \in 1..2 :
           /\ location_updates[i].timestamp = now - 1
           /\ find_nearest_planned_location(location_updates[i].latitude,
                                            PlannedOf(planned_locations, 1))
                  = StationaryRadius
    /\ location_updates[3].timestamp = now
    /\ \E a \in 1..Len(safety_alerts) :
           /\ safety_alerts[a].alert_type = "stationary"
           /\ safety_alerts[a].status = "active"
           /\ safety_alerts[a].latitude = location_updates[3].latitude
           /\ safety_alerts[a].distance_from_planned_km = Some(StationaryRadius + 1)
    /\ \A a \in 1..Len(safety_alerts) :
           safety_alerts[a].latitude = location_updates[3].latitude

\* C10: the stationarity check creates no stationary alert when the trailing
\* 4-hour window of the user and the trip holds fewer than two samples.
C10_NeedsTwoSamples ==
    [][\A in \in MonitorInputs :
         (MonitoredUpdate(in) /\ Cardinality(SamplesInWindow(in[1], in[2])) < 2)
         => CreatedAlerts("stationary") = {}]_vars

(* two samples at one place far from the plan, the first of them older than the
   window: no stationary alert *)
C10_Witness ==
    /\ Len(location_updates) = 2
    /\ \A i \in 1..2 : location_updates[i].user_id = "u1" /\ location_updates[i].trip_id = 1
    /\ location_updates[1].latitude = location_updates[2].latitude
    /\ location_updates[1].timestamp < now - StationaryWindow
    /\ location_updates[2].timestamp = now
    /\ PlannedOf(planned_locations, 1) # <<>>
    /\ Greater(find_nearest_planned_location(location_updates[2].latitude,
                                             PlannedOf(planned_locations, 1)),
               StationaryRadius)
    /\ \A a \in 1..Len(safety_alerts) : safety_alerts[a].alert_type # "stationary"

(* a POST /location-updates of the owner of a trip whose monitoring is off *)
UnmonitoredUpdate(in) ==
    /\ OwnsTrip(in[1], in[2])
    /\ ~ trips[in[2]].monitoring_enabled
    /\ location_updates' = Append(location_updates,
                                  LocationRow(in[3], in[4], in[1], in[2]))
    /\ create_location_update(in[1], in[2], in[3], in[4], 0, 0)

\* C11: with trip.monitoring_enabled false, a location update creates no alert:
\* the alerts are the same before and after and the response reports none.
C11_NoAlertWhenMonitoringOff ==
    [][\A in \in MonitorInputs :
         UnmonitoredUpdate(in)
         => /\ safety_alerts' = safety_alerts
            /\ response'.status_code = 200
            /\ response'.alerts_triggered = <<>>]_vars

(* two samples at one place, beyond the threshold and the radius of the plan of
   the unmonitored trip, and no alert *)
C11_Witness ==
    /\ ~ trips[2].monitoring_enabled
    /\ PlannedOf(planned_locations, 2) # <<>>
    /\ Len(location_updates) = 2
    /\ \A i \in 1..2 :
           /\ location_updates[i].user_id = "u2"
           /\ location_updates[i].trip_id = 2
           /\ location_updates[i].timestamp = now
           /\ Greater(find_nearest_planned_location(location_updates[i].latitude,
                                                    PlannedOf(planned_locations, 2)),
                      trips[2].deviation_threshold_km)
    /\ location_updates[1].latitude = location_updates[2].latitude
    /\ safety_alerts = <<>>
    /\ response = Ok(<<>>)

(* every sample of the window is within the movement epsilon of sample l *)
WithinEpsilon(window, l) == \A i \in window : Apart(i, l) <= MovementEpsilon

\* C12: a location update of a monitored trip creates at most one deviation and
\* at most one stationary alert and nothing else; the stationary alert depends on
\* the window and the plan only, not on the deviation alert; the response lists
\* the created alerts in the order of creation, deviation before stationary.
C12_DeviationThenStationary ==
    [][\A in \in MonitorInputs :
         MonitoredUpdate(in)
         => LET created == (Len(safety_alerts) + 1)..Len(safety_alerts')
                window == SamplesInWindow(in[1], in[2])
            IN  /\ Cardinality(created) <= 2
                /\ Cardinality(CreatedAlerts("deviation")) <= 1
                /\ Cardinality(CreatedAlerts("stationary")) <= 1
                /\ created = CreatedAlerts("deviation") \cup CreatedAlerts("stationary")
                /\ \A a \in CreatedAlerts("deviation"), b \in CreatedAlerts("stationary") :
                       a < b
                /\ Len(response'.alerts_triggered) = Cardinality(created)
                /\ \A k \in 1..Len(response'.alerts_triggered) :
                       response'.alerts_triggered[k]
                           = [type |-> safety_alerts'[Len(safety_alerts) + k].alert_type,
                              alert_id |-> Len(safety_alerts) + k]
                /\ CreatedAlerts("stationary") # {}
                       => /\ Cardinality(window) >= 2
                          /\ \E l \in MostRecent(window) :
                                 WithinEpsilon(window, l) /\ FarFromPlan(l, in[2])
                /\ (/\ Cardinality(window) >= 2
                    /\ \A l \in MostRecent(window) :
                           WithinEpsilon(window, l) /\ FarFromPlan(l, in[2]))
                       => CreatedAlerts("stationary") # {}]_vars

(* the last update has raised both alerts, reported deviation first *)
C12_Witness ==
    /\ Len(response.alerts_triggered) = 2
    /\ response.alerts_triggered[1] = [type |-> "deviation",
                                       alert_id |-> Len(safety_alerts) - 1]
    /\ response.alerts_triggered[2] = [type |-> "stationary",
                                       alert_id |-> Len(safety_alerts)]
    /\ safety_alerts[Len(safety_alerts) - 1].alert_type = "deviation"
    /\ safety_alerts[Len(safety_alerts)].alert_type = "stationary"
    /\ safety_alerts[Len(safety_alerts)].latitude
           = location_updates[Len(location_updates)].latitude

(* the deviation alerts of a user and a trip *)
DeviationAlertsOf(alerts, user_id, trip_id) ==
    {a \in 1..Len(alerts) :
        /\ alerts[a].alert_type = "deviation"
        /\ alerts[a].user_id = user_id
        /\ alerts[a].trip_id = trip_id}

\* C13: every sample of a monitored trip with planned locations that is farther
\* than the threshold from all of them adds one new deviation alert to those of
\* the user and the trip, whether or not earlier ones are still active.
C13_NoDeduplication ==
    [][\A in \in MonitorInputs :
         (/\ MonitoredUpdate(in)
          /\ WaypointsOf(in[2]) # {}
          /\ \A p \in WaypointsOf(in[2]) :
                 calculate_distance_km(in[3], planned_locations[p].latitude)
                     > trips[in[2]].deviation_threshold_km)
         => /\ Cardinality(CreatedAlerts("deviation")) = 1
            /\ DeviationAlertsOf(safety_alerts', in[1], in[2])
                   = DeviationAlertsOf(safety_alerts, in[1], in[2])
                         \cup CreatedAlerts("deviation")
            /\ SubSeq(safety_alerts', 1, Len(safety_alerts)) = safety_alerts]_vars

(* three samples beyond the threshold, three deviation alerts, all still active *)
C13_Witness ==
    /\ Len(location_updates) = 3
    /\ PlannedOf(planned_locations, 1) # <<>>
    /\ \A i \in 1..3 :
           /\ location_updates[i].user_id = "u1"
           /\ location_updates[i].trip_id = 1
           /\ location_updates[i].timestamp # now
           /\ Greater(find_nearest_planned_location(location_updates[i].latitude,
                                                    PlannedOf(planned_locations, 1)),
                      trips[1].deviation_threshold_km)
    /\ Cardinality(DeviationAlertsOf(safety_alerts, "u1", 1)) = 3
    /\ \A a \in DeviationAlertsOf(safety_alerts, "u1", 1) : safety_alerts[a].status = "active"

----------------------------------------------------------------------------
(* Properties of the alert's fields *)

\* C14: every alert has response_deadline = triggered_at + 15 minutes exactly.
C14_DeadlineIsTriggerPlusTimeout ==
    \A a \in 1..Len(safety_alerts) :
        safety_alerts[a].response_deadline
            = safety_alerts[a].triggered_at + ResponseTimeout

(* the status and the canned message of a kind of response *)
StatusOf(kind) == IF kind = "safe" THEN "responded_safe" ELSE "responded_help"

CannedMessage(kind) ==
    IF kind = "safe" THEN "User confirmed they are safe" ELSE "User requested help"

(* a respond_to_alert request with "safe" or "help" on an active alert of the
   caller answers 200, stores the status of the kind, the time and
   stored_message, and touches nothing else *)
RespondsWith(user_id, alert_id, kind, message, stored_message) ==
    (/\ FindAlert(safety_alerts, alert_id, user_id)
     /\ safety_alerts[alert_id].status = "active"
     /\ respond_to_alert(user_id, alert_id, kind, message))
    => /\ response'.status_code = 200
       /\ safety_alerts' =
              [safety_alerts EXCEPT ![alert_id] =
                  [@ EXCEPT !.status = StatusOf(kind),
                            !.responded_at = Some(now),
                            !.response_message = stored_message]]

\* C17 as claimed: respond on an active alert with "safe" or "help" sets the
\* status of that kind, responded_at to the current time and response_message to
\* the supplied message, or to the canned message of the kind when none is
\* supplied, and changes nothing else.
C17_RespondStoresSuppliedMessage ==
    [][\A user_id \in Users, alert_id \in 1..MaxAlerts :
         (FindAlert(safety_alerts, alert_id, user_id) /\ response'.status_code # 404)
         => \A kind \in {"safe", "help"}, message \in Messages :
            RespondsWith(user_id, alert_id, kind, message,
                         IF message = None THEN Some(CannedMessage(kind))
                         ELSE message)]_vars

\* C17 amended: as claimed, but the canned message is stored also when the
\* supplied message is the empty string.  (A request on an alert of the caller
\* never answers 404, so steps answering 404 are passed over.)
C17_RespondStoresNonEmptyMessage ==
    [][\A user_id \in Users, alert_id \in 1..MaxAlerts :
         (FindAlert(safety_alerts, alert_id, user_id) /\ response'.status_code # 404)
         => \A kind \in {"safe", "help"}, message \in Messages :
            RespondsWith(user_id, alert_id, kind, message,
                         IF message = None \/ message = Some("")
                         THEN Some(CannedMessage(kind))
                         ELSE message)]_vars

(* after the deadline one alert has been answered "help" without a message, and
   has kept its other fields *)
C17_Witness ==
    \E a \in 1..Len(safety_alerts) :
        /\ safety_alerts[a].status = "responded_help"
        /\ safety_alerts[a].response_message = Some("User requested help")
        /\ safety_alerts[a].responded_at = Some(now)
        /\ now > safety_alerts[a].response_deadline
        /\ safety_alerts[a].alert_type = "manual"
        /\ safety_alerts[a].triggered_at = 0

\* C20: an alert has responded_at set exactly when its status is responded_safe
\* or responded_help.
C20_RespondedAtIffResponded ==
    \A a \in 1..Len(safety_alerts) :
        safety_alerts[a].responded_at # None
            <=> safety_alerts[a].status \in {"responded_safe", "responded_help"}

(* d is the distance from a place to the nearest planned location of a trip,
   infinite when the trip has none *)
IsNearestDistance(d, lat, trip_id) ==
    IF WaypointsOf(trip_id) = {} THEN d = Some(Infinity)
    ELSE \E p \in WaypointsOf(trip_id) :
             /\ d = Some(calculate_distance_km(lat, planned_locations[p].latitude))
             /\ \A q \in WaypointsOf(trip_id) :
                    calculate_distance_km(lat, planned_locations[q].latitude)
                        >= calculate_distance_km(lat, planned_locations[p].latitude)

\* C15: a deviation or stationary alert is created with distance_from_planned_km
\* equal to the least distance from its coordinates to the planned locations the
\* trip has at that moment, and no step changes the distance or the coordinates
\* of an alert afterwards.
C15_DistanceIsSnapshot ==
    [][/\ \A a \in 1..Len(safety_alerts) :
              /\ a <= Len(safety_alerts')
              /\ safety_alerts'[a].distance_from_planned_km
                     = safety_alerts[a].distance_from_planned_km
              /\ safety_alerts'[a].latitude = safety_alerts[a].latitude
       /\ \A a \in CreatedAlerts("deviation") \cup CreatedAlerts("stationary") :
              IsNearestDistance(safety_alerts'[a].distance_from_planned_km,
                                safety_alerts'[a].latitude,
                                safety_alerts'[a].trip_id)]_vars

(* an answered deviation alert keeps the 2.5 km it was raised with, while the trip
   has since got a planned location 1.5 km from its coordinates *)
C15_Witness ==
    \E a \in 1..Len(safety_alerts) :
        /\ safety_alerts[a].alert_type = "deviation"
        /\ safety_alerts[a].status = "responded_safe"
        /\ safety_alerts[a].latitude = 0
        /\ safety_alerts[a].distance_from_planned_km = Some(5)
        /\ find_nearest_planned_location(0, PlannedOf(planned_locations,
                                                      safety_alerts[a].trip_id)) = 3

\* C16: every alert the last response reports is in safety_alerts with the
\* reported id and type, and a failed request reports no alert.
C16_ReportedAlertsAreStored ==
    /\ \A k \in 1..Len(response.alerts_triggered) :
           /\ response.alerts_triggered[k].alert_id \in 1..Len(safety_alerts)
           /\ safety_alerts[response.alerts_triggered[k].alert_id].alert_type
                  = response.alerts_triggered[k].type
    /\ response.status_code # 200 => response.alerts_triggered = <<>>

(* the last update has reported a stationary alert alone, after an update whose
   stationary alert was lost with its commit *)
C16_Witness ==
    /\ response.status_code = 200
    /\ Len(response.alerts_triggered) = 1
    /\ response.alerts_triggered[1] = [type |-> "stationary",
                                       alert_id |-> Len(safety_alerts)]
    /\ safety_alerts[Len(safety_alerts)].alert_type = "stationary"
    /\ Len(location_updates) = 3
    /\ Cardinality({a \in 1..Len(safety_alerts) :
                       safety_alerts[a].alert_type = "stationary"}) = 1
    /\ \A i \in 1..3 : location_updates[i] = LocationRow(0, now, "u1", 1)

AlertStatuses == {"active", "responded_safe", "responded_help", "escalated"}

\* C18: an alert, however created, starts with status "active", no responded_at
\* and no response_message, and the status of every alert is one of active,
\* responded_safe, responded_help and escalated.
C18_AlertsStartActive ==
    [][/\ \A a \in (Len(safety_alerts) + 1)..Len(safety_alerts') :
              /\ safety_alerts'[a].status = "active"
              /\ safety_alerts'[a].responded_at = None
              /\ safety_alerts'[a].response_message = None
       /\ \A a \in 1..Len(safety_alerts') :
              safety_alerts'[a].status \in AlertStatuses]_vars

(* an alert of each type exists *)
C18_Witness ==
    /\ \A type \in {"deviation", "stationary", "manual"} :
           \E a \in 1..Len(safety_alerts) : safety_alerts[a].alert_type = type
    /\ \E a \in 1..Len(safety_alerts) : safety_alerts[a].status = "active"
    /\ \E a \in 1..Len(safety_alerts) : safety_alerts[a].status = "responded_safe"

\* C19: no step removes or changes a stored sample or removes an alert, and a
\* step that stores a sample changes no existing alert, no trip and no planned
\* location: it adds the sample and the new alerts only.
C19_AppendOnly ==
    [][/\ Len(location_updates') >= Len(location_updates)
       /\ SubSeq(location_updates', 1, Len(location_updates)) = location_updates
       /\ Len(safety_alerts') >= Len(safety_alerts)
       /\ \A a \in 1..Len(safety_alerts) :
              /\ safety_alerts'[a].alert_type = safety_alerts[a].alert_type
              /\ safety_alerts'[a].user_id = safety_alerts[a].user_id
              /\ safety_alerts'[a].trip_id = safety_alerts[a].trip_id
              /\ safety_alerts'[a].triggered_at = safety_alerts[a].triggered_at
       /\ location_updates' # location_updates
              => /\ Len(location_updates') = Len(location_updates) + 1
                 /\ SubSeq(safety_alerts', 1, Len(safety_alerts)) = safety_alerts
                 /\ trips' = trips
                 /\ planned_locations' = planned_locations]_vars

(* a sample stored after an answered alert, an old sample and a planned location:
   all of them are still there *)
C19_Witness ==
    /\ Len(location_updates) = 3
    /\ location_updates[1].timestamp < now - StationaryWindow
    /\ location_updates[3].timestamp = now
    /\ Len(planned_locations) >= 1
    /\ Len(safety_alerts) >= 3
    /\ safety_alerts[1].status = "responded_safe"
    /\ safety_alerts[Len(safety_alerts)].latitude = location_updates[3].latitude
    /\ response.alerts_triggered # <<>>

----------------------------------------------------------------------------
(* Properties of the isolation of users *)

(* the step removes no alert, leaves the alerts of the other users as they were
   and adds alerts of user_id only *)
OthersUntouched(user_id) ==
    /\ Len(safety_alerts') >= Len(safety_alerts)
    /\ \A a \in 1..Len(safety_alerts) :
           safety_alerts[a].user_id # user_id => safety_alerts'[a] = safety_alerts[a]
    /\ \A a \in (Len(safety_alerts) + 1)..Len(safety_alerts') :
           safety_alerts'[a].user_id = user_id

(* the request is refused with 404 and stores nothing *)
Refused ==
    /\ response'.status_code = 404
    /\ safety_alerts' = safety_alerts
    /\ location_updates' = location_updates

\* C21: respond_to_alert on an alert id that does not exist or belongs to another
\* user answers 404 and changes no alert; a location update (or a manual alert)
\* for a trip of another user answers 404 and stores no sample and no alert; no
\* request of a user changes or adds an alert of another user.
C21_AlertsIsolatedPerUser ==
    [][/\ \A user_id \in Users, alert_id \in 1..(Len(safety_alerts) + 1) :
              respond_to_alert(user_id, alert_id, "safe", None)
              => /\ OthersUntouched(user_id)
                 /\ (\/ alert_id > Len(safety_alerts)
                     \/ safety_alerts[alert_id].user_id # user_id) => Refused
       /\ \A user_id \in Users, trip_id \in TripIds :
              /\ create_location_update(user_id, trip_id, 0, now, 0, 0)
                 => /\ OthersUntouched(user_id)
                    /\ trips[trip_id].owner_id # user_id => Refused
              /\ create_manual_alert(user_id, trip_id, 0)
                 => /\ OthersUntouched(user_id)
                    /\ trips[trip_id].owner_id # user_id => Refused
       /\ create_simple_location(2, 0) => safety_alerts' = safety_alerts]_vars

(* both users have alerts, that of u1 answered and that of u2 still active, and
   the last request was refused *)
C21_Witness ==
    /\ response.status_code = 404
    /\ \E a \in 1..Len(safety_alerts) :
           safety_alerts[a].user_id = "u1" /\ safety_alerts[a].status = "responded_safe"
    /\ \E a \in 1..Len(safety_alerts) :
           safety_alerts[a].user_id = "u2" /\ safety_alerts[a].status = "active"
    /\ \A a \in 1..Len(safety_alerts) :
           safety_alerts[a].user_id = "u2" => safety_alerts[a].responded_at = None

====
